---- MODULE Spec2Model ----
(***************************************************************************)
(* A model of the two single-producer / single-consumer primitives of the  *)
(* trapdoor crate:                                                         *)
(*   - MontyHall (src/src/triple.rs): three buckets and one packed atomic  *)
(*     BucketInfo { acquired, canonical };                                 *)
(*   - Trapdoor (src/src/lib.rs): one data cell and an atomic flag.        *)
(* Every value of type T is an object with an identity (a number); the     *)
(* model counts how often each object's destructor runs.  A bucket is a    *)
(* MaybeUninit<T>: `init` says whether it formally holds a value, `bits`   *)
(* is what its memory holds.  Writing MaybeUninit::uninit() into a bucket  *)
(* leaves its memory undefined: the old bits stay or junk replaces them.   *)
(* assume_init() on such a cell yields whatever its memory holds.          *)
(*                                                                         *)
(* Every step that touches shared state is an action of its own, and the   *)
(* producer's and the consumer's steps interleave freely.  For Trapdoor    *)
(* that is what two threads do (unsafe impl Sync, lib.rs line 133).  The   *)
(* halves of a MontyHall hold an Arc of a type with RefCell fields and so  *)
(* stay on one thread: there the interleavings include every order in      *)
(* which safe code can call store, load, deref and the drops.              *)
(* fetch_update is a load followed by a compare-exchange that retries.     *)
(* MontyHallHandle::deref_mut changes an object in place and not which     *)
(* object a bucket holds; it is not an action here.                        *)
(***************************************************************************)
EXTENDS Integers, FiniteSets, Sequences, TLC

\* ------------------------------------------------------------------ bounds
\* the number of store calls the producer of a MontyHall makes
MaxStores == 3
\* the number of store / try_store calls the producer of a Trapdoor makes
MaxOffers == 3

\* --------------------------------------------------------------- constants
\* u8::MAX, the value of `acquired` when no handle is outstanding
NONE == 255
\* the number of buckets of a MontyHall
NumBuckets == 3
\* u32::trailing_zeros of 0
U32Bits == 32

\* what the memory of a cell holds when it does not hold an object
Junk == -1
\* nothing was read through the handle yet
Unread == [seen |-> FALSE, val |-> Junk]
Seen(b) == [seen |-> TRUE, val |-> b]

Buckets == 0 .. (NumBuckets - 1)
\* the objects a MontyHall ever holds: 1 is the one given to new(), the k-th
\* store call stores object k + 1
Vals == 1 .. (MaxStores + 1)
\* the objects a Trapdoor ever holds: 0 is the one given to with_value(),
\* the k-th store / try_store call offers object k
HVals == 0 .. MaxOffers

VARIABLES
    \* ---- MontyHall
    buckets,        \* buckets: [RefCell<MaybeUninit<T>>; 3]
    bucket_info,    \* bucket_info: Atomic<BucketInfo>
    owner,          \* "live" until MontyHall::drop has run, then "dropped"
    txLive,         \* the MontyHallWrite half exists
    rxLive,         \* the MontyHallRead half exists
    wpc,            \* the producer's position inside store
    w_value,        \* store's argument `value`
    w_bucket,       \* store's local `write_bucket`
    w_prev,         \* fetch_update's local `prev` inside store
    w_old,          \* the BucketInfo store's fetch_update returned
    rpc,            \* the consumer's position inside load / handle drop
    h_acquired,     \* MontyHallHandle.acquired
    h_read,         \* the last value read through the handle (Deref)
    r_prev,         \* fetch_update's local `prev` inside load / handle drop
    r_old,          \* `old_info` of MontyHallHandle::drop
    r_value,        \* `value` (ManuallyDrop) of MontyHallHandle::drop
    stores,         \* number of store calls started
    lastStored,     \* the object of the most recently completed store
    h_loaded,       \* what the handle observed when load returned it
    h_expect,       \* when load returned: was no store running, and lastStored
    destroyed,      \* per object, how often its destructor has run
    junkDrops,      \* how often a destructor ran on junk
    \* ---- Trapdoor
    populated,      \* populated: AtomicBool
    data,           \* data: Cell<MaybeUninit<T>>
    tdOwner,        \* "live" until Trapdoor::drop has run, then "dropped"
    ttxLive,        \* the TrapdoorWrite half exists
    trxLive,        \* the TrapdoorRead half exists
    ppc,            \* the producer's position inside try_store
    p_value,        \* try_store's argument `value`
    p_hard,         \* the call is store (panics) rather than try_store
    p_res,          \* what the producer's last call returned
    cpc,            \* the consumer's position inside try_take / try_peek
    c_hard,         \* the call is take / peek (panics) rather than try_*
    c_value,        \* try_take's local `value`
    c_res,          \* what the consumer's last call returned
    offers,         \* number of store / try_store calls started
    lastOk,         \* the object of the most recent successful store
    taken,          \* the objects handed to the consumer by take / try_take
    tdDestroyed,    \* per object, how often the Trapdoor ran its destructor
    tdJunkDrops     \* how often the Trapdoor ran a destructor on junk

mhVars == <<buckets, bucket_info, owner, txLive, rxLive, wpc, w_value, w_bucket,
            w_prev, w_old, rpc, h_acquired, h_read, r_prev, r_old, r_value,
            stores, lastStored, h_loaded, h_expect, destroyed, junkDrops>>
tdVars == <<populated, data, tdOwner, ttxLive, trxLive, ppc, p_value, p_hard,
            p_res, cpc, c_hard, c_value, c_res, offers, lastOk, taken,
            tdDestroyed, tdJunkDrops>>
vars == <<mhVars, tdVars>>

\* ------------------------------------------------------------ MaybeUninit
\* MaybeUninit::new(v)
MaybeUninitNew(v) == [init |-> TRUE, bits |-> v]
\* the contents a cell can have after MaybeUninit::uninit() was written over
\* `old`: formally nothing, physically the old bits or junk
MaybeUninitOver(old) == {[init |-> FALSE, bits |-> b] : b \in {old.bits, Junk}}
\* a cell that was created as MaybeUninit::uninit()
MaybeUninitFresh == [init |-> FALSE, bits |-> Junk]

\* running the destructor of whatever assume_init() produced from bits b
IsObject(b) == b >= 0
DropIn(count, b) == IF IsObject(b) THEN [count EXCEPT ![b] = @ + 1] ELSE count
JunkIn(count, b) == IF IsObject(b) THEN count ELSE count + 1

SetMin(S) == CHOOSE x \in S : \A y \in S : x <= y

\* ---------------------------------------------------------------- MontyHall
BucketInfo(a, c) == [acquired |-> a, canonical |-> c]

\* the mask of write_bucket with the acquired bucket left in it
WriteBucketNoPin(info) ==
    LET mask == Buckets \ {info.canonical}
    IN  IF mask = {} THEN U32Bits ELSE SetMin(mask)

\* MontyHall::write_bucket, from the BucketInfo it loaded: the lowest bucket
\* that is neither acquired nor canonical
WriteBucket(info) ==
    LET mask0 == IF info.acquired < NumBuckets THEN Buckets \ {info.acquired} ELSE Buckets
        mask  == mask0 \ {info.canonical}
    IN  IF mask = {} THEN U32Bits ELSE SetMin(mask)

\* MontyHall::new(1), before and after split()
InitMH ==
    /\ buckets = [b \in Buckets |-> IF b = 0 THEN MaybeUninitNew(1) ELSE MaybeUninitFresh]
    /\ bucket_info = BucketInfo(NONE, 0)
    /\ owner = "live"
    /\ txLive = TRUE
    /\ rxLive = TRUE
    /\ wpc = "idle"
    /\ w_value = 0
    /\ w_bucket = 0
    /\ w_prev = BucketInfo(NONE, 0)
    /\ w_old = BucketInfo(NONE, 0)
    /\ rpc = "idle"
    /\ h_acquired = 0
    /\ h_read = Unread
    /\ r_prev = BucketInfo(NONE, 0)
    /\ r_old = BucketInfo(NONE, 0)
    /\ r_value = Junk
    /\ stores = 0
    /\ lastStored = 1
    /\ h_loaded = Junk
    /\ h_expect = [quiet |-> FALSE, val |-> 1]
    /\ destroyed = [v \in Vals |-> 0]
    /\ junkDrops = 0

\* store, line 135: let write_bucket = self.write_bucket()
StoreWriteBucket ==
    /\ owner = "live" /\ txLive /\ wpc = "idle"
    /\ stores < MaxStores
    /\ stores' = stores + 1
    /\ w_value' = stores + 2
    /\ w_bucket' = WriteBucket(bucket_info)
    /\ wpc' = "write"
    /\ UNCHANGED <<buckets, bucket_info, owner, txLive, rxLive, w_prev, w_old,
                   rpc, h_acquired, h_read, r_prev, r_old, r_value, lastStored,
                   h_loaded, h_expect, destroyed, junkDrops>>
    /\ UNCHANGED tdVars

\* store, line 137: self.buckets[write_bucket].replace(MaybeUninit::new(value));
\* the MaybeUninit that replace returns is discarded without a destructor
StoreWrite ==
    /\ wpc = "write"
    /\ w_bucket \in Buckets
    /\ buckets' = [buckets EXCEPT ![w_bucket] = MaybeUninitNew(w_value)]
    /\ wpc' = "fetch"
    /\ UNCHANGED <<bucket_info, owner, txLive, rxLive, w_value, w_bucket, w_prev,
                   w_old, rpc, h_acquired, h_read, r_prev, r_old, r_value, stores,
                   lastStored, h_loaded, h_expect, destroyed, junkDrops>>
    /\ UNCHANGED tdVars

\* store, lines 142-144: fetch_update loads the current BucketInfo
StoreFetch ==
    /\ wpc = "fetch"
    /\ w_prev' = bucket_info
    /\ wpc' = "cas"
    /\ UNCHANGED <<buckets, bucket_info, owner, txLive, rxLive, w_value, w_bucket,
                   w_old, rpc, h_acquired, h_read, r_prev, r_old, r_value, stores,
                   lastStored, h_loaded, h_expect, destroyed, junkDrops>>
    /\ UNCHANGED tdVars

\* the BucketInfo store's closure computes, lines 145-148
StoreUpdate(info, wb) == BucketInfo(info.acquired, wb)

\* a store whose update is a plain write of what it computed from the
\* BucketInfo it loaded earlier, with no compare-exchange
StoreBlindWrite ==
    /\ wpc = "cas"
    /\ bucket_info' = BucketInfo(w_prev.acquired, w_bucket)
    /\ w_old' = w_prev
    /\ wpc' = "drop"
    /\ UNCHANGED <<buckets, owner, txLive, rxLive, w_value, w_bucket, w_prev,
                   rpc, h_acquired, h_read, r_prev, r_old, r_value, stores,
                   lastStored, h_loaded, h_expect, destroyed, junkDrops>>
    /\ UNCHANGED tdVars

\* store, lines 144-151: fetch_update's compare-exchange succeeds and returns
\* the previous BucketInfo
StoreCasOk ==
    /\ wpc = "cas"
    /\ bucket_info = w_prev
    /\ bucket_info' = StoreUpdate(w_prev, w_bucket)
    /\ w_old' = w_prev
    /\ wpc' = "drop"
    /\ UNCHANGED <<buckets, owner, txLive, rxLive, w_value, w_bucket, w_prev,
                   rpc, h_acquired, h_read, r_prev, r_old, r_value, stores,
                   lastStored, h_loaded, h_expect, destroyed, junkDrops>>
    /\ UNCHANGED tdVars

\* a fetch_update that retries with the BucketInfo it had, not the one it found
StoreCasRetryStale ==
    /\ wpc = "cas"
    /\ bucket_info # w_prev
    /\ UNCHANGED mhVars
    /\ UNCHANGED tdVars

\* store, lines 144-151: the compare-exchange fails because the consumer
\* changed the BucketInfo; fetch_update retries with the value it found
StoreCasRetry ==
    /\ wpc = "cas"
    /\ bucket_info # w_prev
    /\ w_prev' = bucket_info
    /\ UNCHANGED <<buckets, bucket_info, owner, txLive, rxLive, wpc, w_value,
                   w_bucket, w_old, rpc, h_acquired, h_read, r_prev, r_old,
                   r_value, stores, lastStored, h_loaded, h_expect, destroyed,
                   junkDrops>>
    /\ UNCHANGED tdVars

\* a store that never destroys the old canonical value
StoreMustDropNever(old) == FALSE

\* store, line 159: whether store destroys the old canonical bucket
StoreMustDrop(old) == old.acquired # old.canonical

\* store, lines 159-165: destroy the old canonical value if no handle held it
StoreDrop ==
    /\ wpc = "drop"
    /\ IF StoreMustDrop(w_old)
       THEN /\ \E c \in MaybeUninitOver(buckets[w_old.canonical]) :
                 buckets' = [buckets EXCEPT ![w_old.canonical] = c]
            /\ destroyed' = DropIn(destroyed, buckets[w_old.canonical].bits)
            /\ junkDrops' = JunkIn(junkDrops, buckets[w_old.canonical].bits)
       ELSE UNCHANGED <<buckets, destroyed, junkDrops>>
    /\ lastStored' = w_value
    /\ wpc' = "idle"
    /\ UNCHANGED <<bucket_info, owner, txLive, rxLive, w_value, w_bucket, w_prev,
                   w_old, rpc, h_acquired, h_read, r_prev, r_old, r_value, stores,
                   h_loaded, h_expect>>
    /\ UNCHANGED tdVars

\* load, lines 115-117: fetch_update loads the current BucketInfo
LoadFetch ==
    /\ owner = "live" /\ rxLive /\ rpc = "idle"
    /\ r_prev' = bucket_info
    /\ rpc' = "l_cas"
    /\ UNCHANGED <<buckets, bucket_info, owner, txLive, rxLive, wpc, w_value,
                   w_bucket, w_prev, w_old, h_acquired, h_read, r_old, r_value,
                   stores, lastStored, h_loaded, h_expect, destroyed, junkDrops>>
    /\ UNCHANGED tdVars

\* the BucketInfo load's closure computes, lines 118-121
LoadUpdate(info) == BucketInfo(info.canonical, info.canonical)

\* load, lines 117-129: the compare-exchange succeeds; the handle is built
\* from the canonical field of the previous BucketInfo
LoadCasOk ==
    /\ rpc = "l_cas"
    /\ bucket_info = r_prev
    /\ bucket_info' = LoadUpdate(r_prev)
    /\ h_acquired' = r_prev.canonical
    /\ h_read' = Unread
    /\ h_loaded' = buckets[r_prev.canonical].bits
    /\ h_expect' = [quiet |-> wpc = "idle", val |-> lastStored]
    /\ rpc' = "held"
    /\ UNCHANGED <<buckets, owner, txLive, rxLive, wpc, w_value, w_bucket, w_prev,
                   w_old, r_prev, r_old, r_value, stores, lastStored, destroyed,
                   junkDrops>>
    /\ UNCHANGED tdVars

\* load, lines 117-124: the compare-exchange fails because the producer
\* changed the BucketInfo; fetch_update retries with the value it found
LoadCasRetry ==
    /\ rpc = "l_cas"
    /\ bucket_info # r_prev
    /\ r_prev' = bucket_info
    /\ UNCHANGED <<buckets, bucket_info, owner, txLive, rxLive, wpc, w_value,
                   w_bucket, w_prev, w_old, rpc, h_acquired, h_read, r_old,
                   r_value, stores, lastStored, h_loaded, h_expect, destroyed,
                   junkDrops>>
    /\ UNCHANGED tdVars

\* MontyHallHandle::deref, lines 35-37: read the value of the handle's bucket
Deref ==
    /\ rpc = "held"
    /\ h_read' = Seen(buckets[h_acquired].bits)
    /\ UNCHANGED <<buckets, bucket_info, owner, txLive, rxLive, wpc, w_value,
                   w_bucket, w_prev, w_old, rpc, h_acquired, r_prev, r_old,
                   r_value, stores, lastStored, h_loaded, h_expect, destroyed,
                   junkDrops>>
    /\ UNCHANGED tdVars

\* MontyHallHandle::drop, lines 53-57: move the value out of the handle's
\* bucket into a ManuallyDrop, leaving MaybeUninit::uninit() in the bucket
HandleDropTake ==
    /\ rpc = "held"
    /\ r_value' = buckets[h_acquired].bits
    /\ \E c \in MaybeUninitOver(buckets[h_acquired]) :
          buckets' = [buckets EXCEPT ![h_acquired] = c]
    /\ rpc' = "r_fetch"
    /\ UNCHANGED <<bucket_info, owner, txLive, rxLive, wpc, w_value, w_bucket,
                   w_prev, w_old, h_acquired, h_read, r_prev, r_old, stores,
                   lastStored, h_loaded, h_expect, destroyed, junkDrops>>
    /\ UNCHANGED tdVars

\* MontyHallHandle::drop, lines 59-62: fetch_update loads the current BucketInfo
HandleDropFetch ==
    /\ rpc = "r_fetch"
    /\ r_prev' = bucket_info
    /\ rpc' = "r_cas"
    /\ UNCHANGED <<buckets, bucket_info, owner, txLive, rxLive, wpc, w_value,
                   w_bucket, w_prev, w_old, h_acquired, h_read, r_old, r_value,
                   stores, lastStored, h_loaded, h_expect, destroyed, junkDrops>>
    /\ UNCHANGED tdVars

\* the BucketInfo the handle drop's closure computes, lines 63-66
HandleDropUpdate(info) == BucketInfo(NONE, info.canonical)

\* MontyHallHandle::drop, lines 62-69: the compare-exchange succeeds
HandleDropCasOk ==
    /\ rpc = "r_cas"
    /\ bucket_info = r_prev
    /\ bucket_info' = HandleDropUpdate(r_prev)
    /\ r_old' = r_prev
    /\ rpc' = "r_drop"
    /\ UNCHANGED <<buckets, owner, txLive, rxLive, wpc, w_value, w_bucket, w_prev,
                   w_old, h_acquired, h_read, r_prev, r_value, stores, lastStored,
                   h_loaded, h_expect, destroyed, junkDrops>>
    /\ UNCHANGED tdVars

\* MontyHallHandle::drop, lines 62-69: the compare-exchange fails and retries
HandleDropCasRetry ==
    /\ rpc = "r_cas"
    /\ bucket_info # r_prev
    /\ r_prev' = bucket_info
    /\ UNCHANGED <<buckets, bucket_info, owner, txLive, rxLive, wpc, w_value,
                   w_bucket, w_prev, w_old, rpc, h_acquired, h_read, r_old,
                   r_value, stores, lastStored, h_loaded, h_expect, destroyed,
                   junkDrops>>
    /\ UNCHANGED tdVars

\* MontyHallHandle::drop, line 72: whether the handle destroys its value
HandleMustDrop(old) == old.acquired # old.canonical

\* MontyHallHandle::drop, lines 72-78: destroy the value that was moved out if
\* the handle was not canonical; otherwise the ManuallyDrop is forgotten
HandleDropFinish ==
    /\ rpc = "r_drop"
    /\ IF HandleMustDrop(r_old)
       THEN /\ destroyed' = DropIn(destroyed, r_value)
            /\ junkDrops' = JunkIn(junkDrops, r_value)
       ELSE UNCHANGED <<destroyed, junkDrops>>
    /\ rpc' = "idle"
    /\ UNCHANGED <<buckets, bucket_info, owner, txLive, rxLive, wpc, w_value,
                   w_bucket, w_prev, w_old, h_acquired, h_read, r_prev, r_old,
                   r_value, stores, lastStored, h_loaded, h_expect>>
    /\ UNCHANGED tdVars

\* MontyHall::drop, lines 189-198, run when the last half lets go of the Arc:
\* destroy what assume_init() finds in the canonical bucket
MontyHallDrop ==
    /\ \E c \in MaybeUninitOver(buckets[bucket_info.canonical]) :
          buckets' = [buckets EXCEPT ![bucket_info.canonical] = c]
    /\ destroyed' = DropIn(destroyed, buckets[bucket_info.canonical].bits)
    /\ junkDrops' = JunkIn(junkDrops, buckets[bucket_info.canonical].bits)
    /\ owner' = "dropped"

\* dropping the MontyHallWrite half (lines 202, 106-110); it is the last half
\* when the read half is gone
DropWrite ==
    /\ owner = "live" /\ txLive /\ wpc = "idle"
    /\ txLive' = FALSE
    /\ IF rxLive
       THEN UNCHANGED <<buckets, destroyed, junkDrops, owner>>
       ELSE MontyHallDrop
    /\ UNCHANGED <<bucket_info, rxLive, wpc, w_value, w_bucket, w_prev, w_old,
                   rpc, h_acquired, h_read, r_prev, r_old, r_value, stores,
                   lastStored, h_loaded, h_expect>>
    /\ UNCHANGED tdVars

\* dropping the MontyHallRead half (lines 214, 106-110); a handle borrows the
\* read half, so none is outstanding
DropRead ==
    /\ owner = "live" /\ rxLive /\ rpc = "idle"
    /\ rxLive' = FALSE
    /\ IF txLive
       THEN UNCHANGED <<buckets, destroyed, junkDrops, owner>>
       ELSE MontyHallDrop
    /\ UNCHANGED <<bucket_info, txLive, wpc, w_value, w_bucket, w_prev, w_old,
                   rpc, h_acquired, h_read, r_prev, r_old, r_value, stores,
                   lastStored, h_loaded, h_expect>>
    /\ UNCHANGED tdVars

MHNext ==
    \/ StoreWriteBucket \/ StoreWrite \/ StoreFetch \/ StoreCasOk
    \/ StoreCasRetry \/ StoreDrop
    \/ LoadFetch \/ LoadCasOk \/ LoadCasRetry \/ Deref
    \/ HandleDropTake \/ HandleDropFetch \/ HandleDropCasOk
    \/ HandleDropCasRetry \/ HandleDropFinish
    \/ DropWrite \/ DropRead

\* ----------------------------------------------------------------- Trapdoor
\* what the memory of a cell holds while a value is being written into it
Torn == -2
NoRes == [tag |-> "none", val |-> Junk]
Ok == [tag |-> "Ok", val |-> Junk]
Err(v) == [tag |-> "Err", val |-> v]
Some(v) == [tag |-> "Some", val |-> v]
Ref == [tag |-> "Ref", val |-> Junk]
RefTo(v) == [tag |-> "Ref", val |-> v]
None == [tag |-> "None", val |-> Junk]
Panic == [tag |-> "panic", val |-> Junk]

\* Trapdoor::new() or Trapdoor::with_value(0), before and after split()
InitTD ==
    /\ \/ /\ populated = FALSE
          /\ data = MaybeUninitFresh
       \/ /\ populated = TRUE
          /\ data = MaybeUninitNew(0)
    /\ tdOwner = "live"
    /\ ttxLive = TRUE
    /\ trxLive = TRUE
    /\ ppc = "idle"
    /\ p_value = 0
    /\ p_hard = FALSE
    /\ p_res = NoRes
    /\ cpc = "idle"
    /\ c_hard = FALSE
    /\ c_value = Junk
    /\ c_res = NoRes
    /\ offers = 0
    /\ lastOk = 0
    /\ taken = {}
    /\ tdDestroyed = [v \in HVals |-> 0]
    /\ tdJunkDrops = 0

\* what a failed call returns: the checked variant hands `soft` back, the
\* unchecked one (store, take, peek) panics
Fail(hard, soft) == IF hard THEN Panic ELSE soft
FailPc(hard) == IF hard THEN "panicked" ELSE "idle"

\* a try_store that never finds the trapdoor occupied
StoreSeesOccupiedNever(flag) == FALSE

\* try_store, line 96: if self.populated.load(Ordering::Acquire)
StoreSeesOccupied(flag) == flag

\* try_store, lines 96-98, called as store(value) (hard) or try_store(value):
\* load the flag; on an occupied trapdoor return Err(value), which store
\* (lines 161-165) turns into a panic
StoreLoad ==
    /\ tdOwner = "live" /\ ttxLive /\ ppc = "idle"
    /\ offers < MaxOffers
    /\ \E hard \in BOOLEAN :
          /\ p_hard' = hard
          /\ offers' = offers + 1
          /\ p_value' = offers + 1
          /\ IF StoreSeesOccupied(populated)
             THEN /\ p_res' = Fail(hard, Err(offers + 1))
                  /\ ppc' = FailPc(hard)
             ELSE /\ p_res' = NoRes
                  /\ ppc' = "s_write"
    /\ UNCHANGED <<populated, data, tdOwner, ttxLive, trxLive, cpc, c_hard,
                   c_value, c_res, lastOk, taken, tdDestroyed, tdJunkDrops>>
    /\ UNCHANGED mhVars

\* a try_store that sets the flag before it writes the value
StoreSetBeginFlagFirst ==
    /\ ppc = "s_write"
    /\ data' = [init |-> FALSE, bits |-> Torn]
    /\ populated' = TRUE
    /\ ppc' = "s_writing"
    /\ UNCHANGED <<tdOwner, ttxLive, trxLive, p_value, p_hard, p_res,
                   cpc, c_hard, c_value, c_res, offers, lastOk, taken,
                   tdDestroyed, tdJunkDrops>>
    /\ UNCHANGED mhVars

\* try_store, line 99: self.data.set(MaybeUninit::new(value)) is a plain,
\* non-atomic write; until it ends the cell holds a partly written value
StoreSetBegin ==
    /\ ppc = "s_write"
    /\ data' = [init |-> FALSE, bits |-> Torn]
    /\ ppc' = "s_writing"
    /\ UNCHANGED <<populated, tdOwner, ttxLive, trxLive, p_value, p_hard, p_res,
                   cpc, c_hard, c_value, c_res, offers, lastOk, taken,
                   tdDestroyed, tdJunkDrops>>
    /\ UNCHANGED mhVars

\* try_store, line 99: the write of the value ends
StoreSetEnd ==
    /\ ppc = "s_writing"
    /\ data' = MaybeUninitNew(p_value)
    /\ ppc' = "s_flag"
    /\ UNCHANGED <<populated, tdOwner, ttxLive, trxLive, p_value, p_hard, p_res,
                   cpc, c_hard, c_value, c_res, offers, lastOk, taken,
                   tdDestroyed, tdJunkDrops>>
    /\ UNCHANGED mhVars

\* try_store, lines 100-102: self.populated.store(true, Release); Ok(())
StoreFlag ==
    /\ ppc = "s_flag"
    /\ populated' = TRUE
    /\ lastOk' = p_value
    /\ p_res' = Ok
    /\ ppc' = "idle"
    /\ UNCHANGED <<data, tdOwner, ttxLive, trxLive, p_value, p_hard, cpc, c_hard,
                   c_value, c_res, offers, taken, tdDestroyed, tdJunkDrops>>
    /\ UNCHANGED mhVars

\* a try_take that always finds the trapdoor occupied
TakeSeesOccupiedAlways(flag) == TRUE

\* try_take, line 110: if self.populated.load(Ordering::Acquire)
TakeSeesOccupied(flag) == flag

\* try_take, lines 110 and 117-119, called as take() (hard) or try_take():
\* load the flag; on an empty trapdoor return None, which take (line 204)
\* turns into a panic
TakeLoad ==
    /\ tdOwner = "live" /\ trxLive /\ cpc = "idle"
    /\ \E hard \in BOOLEAN :
          /\ c_hard' = hard
          /\ IF TakeSeesOccupied(populated)
             THEN /\ c_res' = NoRes
                  /\ cpc' = "t_read"
             ELSE /\ c_res' = Fail(hard, None)
                  /\ cpc' = FailPc(hard)
    /\ UNCHANGED <<populated, data, tdOwner, ttxLive, trxLive, ppc, p_value,
                   p_hard, p_res, c_value, offers, lastOk, taken, tdDestroyed,
                   tdJunkDrops>>
    /\ UNCHANGED mhVars

\* try_take, line 112: self.data.replace(MaybeUninit::uninit()).assume_init()
TakeReplace ==
    /\ cpc = "t_read"
    /\ c_value' = data.bits
    /\ data' \in MaybeUninitOver(data)
    /\ cpc' = "t_flag"
    /\ UNCHANGED <<populated, tdOwner, ttxLive, trxLive, ppc, p_value, p_hard,
                   p_res, c_hard, c_res, offers, lastOk, taken, tdDestroyed,
                   tdJunkDrops>>
    /\ UNCHANGED mhVars

\* a try_take that leaves the flag set
TakeFlagValueKept == TRUE

\* try_take, line 114: the value stored into the flag
TakeFlagValue == FALSE

\* try_take, lines 114-116: self.populated.store(false, Release); Some(value)
TakeFlag ==
    /\ cpc = "t_flag"
    /\ populated' = TakeFlagValue
    /\ c_res' = Some(c_value)
    /\ taken' = taken \cup {c_value}
    /\ cpc' = "idle"
    /\ UNCHANGED <<data, tdOwner, ttxLive, trxLive, ppc, p_value, p_hard, p_res,
                   c_hard, c_value, offers, lastOk, tdDestroyed, tdJunkDrops>>
    /\ UNCHANGED mhVars

\* try_peek, line 123: if self.populated.load(Ordering::Acquire)
PeekSeesOccupied(flag) == flag

\* try_peek, lines 123-127, called as peek() (hard) or try_peek(): load the
\* flag; on an occupied trapdoor return a reference into the cell, on an
\* empty one None, which peek (line 214) turns into a panic
PeekLoad ==
    /\ tdOwner = "live" /\ trxLive /\ cpc = "idle"
    /\ \E hard \in BOOLEAN :
          /\ c_hard' = hard
          /\ IF PeekSeesOccupied(populated)
             THEN /\ c_res' = Ref
                  /\ cpc' = "p_ref"
             ELSE /\ c_res' = Fail(hard, None)
                  /\ cpc' = FailPc(hard)
    /\ UNCHANGED <<populated, data, tdOwner, ttxLive, trxLive, ppc, p_value,
                   p_hard, p_res, c_value, offers, lastOk, taken, tdDestroyed,
                   tdJunkDrops>>
    /\ UNCHANGED mhVars

\* a peek whose caller gets the value by moving it out of the cell
PeekReadMoves ==
    /\ cpc = "p_ref"
    /\ c_res' = RefTo(data.bits)
    /\ data' \in MaybeUninitOver(data)
    /\ UNCHANGED <<populated, tdOwner, ttxLive, trxLive, ppc, p_value,
                   p_hard, p_res, cpc, c_hard, c_value, offers, lastOk, taken,
                   tdDestroyed, tdJunkDrops>>
    /\ UNCHANGED mhVars

\* the caller reads the value through the reference peek returned (line 124)
PeekRead ==
    /\ cpc = "p_ref"
    /\ c_res' = RefTo(data.bits)
    /\ UNCHANGED <<populated, data, tdOwner, ttxLive, trxLive, ppc, p_value,
                   p_hard, p_res, cpc, c_hard, c_value, offers, lastOk, taken,
                   tdDestroyed, tdJunkDrops>>
    /\ UNCHANGED mhVars

\* the reference peek returned (lines 213, 217: it borrows the read half) ends
PeekEnd ==
    /\ cpc = "p_ref"
    /\ cpc' = "idle"
    /\ UNCHANGED <<populated, data, tdOwner, ttxLive, trxLive, ppc, p_value,
                   p_hard, p_res, c_hard, c_value, c_res, offers, lastOk, taken,
                   tdDestroyed, tdJunkDrops>>
    /\ UNCHANGED mhVars

\* a Trapdoor::drop that destroys nothing
TrapdoorDropNothing ==
    /\ UNCHANGED <<data, populated, tdDestroyed, tdJunkDrops>>
    /\ tdOwner' = "dropped"

\* a Trapdoor::drop that destroys the cell's content whatever the flag says
TrapdoorDropAlways ==
    /\ data' \in MaybeUninitOver(data)
    /\ populated' = FALSE
    /\ tdDestroyed' = DropIn(tdDestroyed, data.bits)
    /\ tdJunkDrops' = JunkIn(tdJunkDrops, data.bits)
    /\ tdOwner' = "dropped"

\* Trapdoor::drop, lines 136-142, run when the last half lets go of the Arc:
\* try_take() and destroy what it returned
TrapdoorDrop ==
    /\ IF populated
       THEN /\ data' \in MaybeUninitOver(data)
            /\ populated' = FALSE
            /\ tdDestroyed' = DropIn(tdDestroyed, data.bits)
            /\ tdJunkDrops' = JunkIn(tdJunkDrops, data.bits)
       ELSE UNCHANGED <<data, populated, tdDestroyed, tdJunkDrops>>
    /\ tdOwner' = "dropped"

\* dropping the TrapdoorWrite half (line 146), also while a panic of store
\* unwinds; it is the last half when the read half is gone
DropTdWrite ==
    /\ tdOwner = "live" /\ ttxLive /\ ppc \in {"idle", "panicked"}
    /\ ttxLive' = FALSE
    /\ IF trxLive
       THEN UNCHANGED <<data, populated, tdDestroyed, tdJunkDrops, tdOwner>>
       ELSE TrapdoorDrop
    /\ UNCHANGED <<trxLive, ppc, p_value, p_hard, p_res, cpc, c_hard, c_value,
                   c_res, offers, lastOk, taken>>
    /\ UNCHANGED mhVars

\* dropping the TrapdoorRead half (line 183), also while a panic of take or
\* peek unwinds; a reference from peek borrows it, so none is outstanding
DropTdRead ==
    /\ tdOwner = "live" /\ trxLive /\ cpc \in {"idle", "panicked"}
    /\ trxLive' = FALSE
    /\ IF ttxLive
       THEN UNCHANGED <<data, populated, tdDestroyed, tdJunkDrops, tdOwner>>
       ELSE TrapdoorDrop
    /\ UNCHANGED <<ttxLive, ppc, p_value, p_hard, p_res, cpc, c_hard, c_value,
                   c_res, offers, lastOk, taken>>
    /\ UNCHANGED mhVars

TDNext ==
    \/ StoreLoad \/ StoreSetBegin \/ StoreSetEnd \/ StoreFlag
    \/ TakeLoad \/ TakeReplace \/ TakeFlag
    \/ PeekLoad \/ PeekRead \/ PeekEnd
    \/ DropTdWrite \/ DropTdRead

\* ------------------------------------------------------------ specifications
\* a MontyHall made by new(1) and split, beside an untouched Trapdoor::new()
TripleInit == InitMH /\ InitTD /\ ~populated

\* a Trapdoor made by new() or with_value(0) and split, beside an untouched
\* MontyHall
HandoffInit == InitMH /\ InitTD

\* a MontyHall with its producer and its consumer
TripleSpec == TripleInit /\ [][MHNext]_vars

\* a Trapdoor with its producer and its consumer
HandoffSpec == HandoffInit /\ [][TDNext]_vars

\* the steps inside a call of MontyHallWrite::store, after its first
StoreSteps ==
    StoreWrite \/ StoreFetch \/ StoreCasOk \/ StoreCasRetry \/ StoreDrop

\* the steps inside a call of MontyHallRead::load and inside the drop of its
\* handle, after the first step of each
ReadSteps ==
    \/ LoadCasOk \/ LoadCasRetry
    \/ HandleDropFetch \/ HandleDropCasOk \/ HandleDropCasRetry
    \/ HandleDropFinish

\* the steps inside a call of TrapdoorWrite::try_store or store, after its
\* first
TdStoreSteps == StoreSetBegin \/ StoreSetEnd \/ StoreFlag

\* the steps inside a call of TrapdoorRead::try_take or take, after its first
TdTakeSteps == TakeReplace \/ TakeFlag

\* one channel of either kind: a MontyHall or a Trapdoor, made and split
ProgressInit == InitMH /\ InitTD

\* the program works on its MontyHall, or on its Trapdoor
ProgressNext ==
    \/ InitTD /\ ~populated /\ MHNext
    \/ InitMH /\ TDNext

\* the two sides run on native threads: a thread inside a call takes its next
\* step sooner or later; when to start a call, and how long to keep a handle
\* or a reference, is up to the caller
ProgressSpec ==
    /\ ProgressInit
    /\ [][ProgressNext]_vars
    /\ WF_vars(StoreSteps)
    /\ WF_vars(ReadSteps)
    /\ WF_vars(TdStoreSteps)
    /\ WF_vars(TdTakeSteps)

\* ------------------------------------------------------- MontyHall: claims
\* the objects placed in a bucket so far: the initial one and the stored ones
Placed == 1 .. (stores + 1)

\* bucket b holds a live value: it is initialised with an object whose
\* destructor has not run
Live(b) ==
    /\ buckets[b].init
    /\ IsObject(buckets[b].bits)
    /\ destroyed[buckets[b].bits] = 0

\* a read handle is outstanding: load has returned it, its drop has not begun
HandleOut == rpc = "held"

\* C1: once the owner is torn down, every object ever placed in a bucket has
\* had its destructor run exactly once.
C1_DestroyedExactlyOnce ==
    owner = "dropped" => \A v \in Placed : destroyed[v] = 1

\* C2: while the owner exists, in every state (also between the steps of a
\* store, a load and a handle drop) the canonical bucket holds a live value.
C2_CanonicalLive ==
    owner = "live" => Live(bucket_info.canonical)

\* the producer is about to write into the bucket the handle pins
PinnedWritten == wpc = "write" /\ w_bucket = h_acquired
\* the producer is about to destroy the bucket the handle pins
PinnedDestroyed ==
    wpc = "drop" /\ StoreMustDrop(w_old) /\ w_old.canonical = h_acquired

\* C3: while a read handle is outstanding, the bucket it pins holds a live
\* value and is neither the bucket the producer writes into nor the one it
\* destroys.
C3_PinnedLiveAndUntouched ==
    HandleOut => Live(h_acquired) /\ ~PinnedWritten /\ ~PinnedDestroyed

\* C4: at every point of a handle's lifetime the value seen through the
\* handle is the one it showed when load returned it, however many stores
\* the producer performs meanwhile.
C4_Snapshot ==
    HandleOut =>
        /\ buckets[h_acquired].bits = h_loaded
        /\ h_read.seen => h_read.val = h_loaded

\* C4 witness: a handle that was loaded on the initial object still shows it
\* after two later stores have completed.
C4_Witness ==
    /\ HandleOut
    /\ h_loaded = 1
    /\ h_read = Seen(1)
    /\ lastStored = 3
    /\ wpc = "idle"

\* C5: a load that returns while no store is running observes the object of
\* the most recently completed store (the initial object if there was none).
C5_LoadSeesLatest ==
    HandleOut /\ h_expect.quiet => h_loaded = h_expect.val

\* C6: at teardown acquired is NONE, the canonical bucket is the only bucket
\* with a live value, and teardown runs that value's destructor, after which
\* every placed object has been destroyed exactly once and nothing else has.
C6_TeardownDestroysCanonicalOnce ==
    [][owner = "live" /\ owner' = "dropped" =>
          /\ bucket_info.acquired = NONE
          /\ \A b \in Buckets : Live(b) <=> b = bucket_info.canonical
          /\ \A v \in Placed : destroyed'[v] = 1
          /\ junkDrops' = 0]_vars

\* -------------------------------------------------------- Trapdoor: claims
\* the producer is at its access to the data cell (line 99)
ProducerAtCell == ppc \in {"s_write", "s_writing"}
\* the consumer is at its access to the data cell (line 112), or holds a
\* reference into it (line 124)
ConsumerAtCell == cpc \in {"t_read", "p_ref"}

\* the consumer's step is the flag load of try_take or try_peek (take or peek)
ConsumerCalls == cpc = "idle" /\ trxLive' /\ <<cpc, c_hard, c_res>>' # <<cpc, c_hard, c_res>>
\* the producer's step is the flag load of try_store (store)
ProducerCalls == ppc = "idle" /\ offers' = offers + 1

\* C7: take returns exactly the object of the store before it, and an object
\* handed to the consumer is an object, is no longer held by the cell and is
\* never destroyed by the trapdoor.
C7_TakeReturnsStored ==
    [][/\ cpc = "t_flag" /\ cpc' = "idle" =>
             /\ c_res' = Some(lastOk)
             /\ taken' = taken \cup {lastOk}
             /\ lastOk \notin taken
       /\ \A v \in taken' :
             /\ IsObject(v)
             /\ tdDestroyed'[v] = 0
             /\ ~(data'.init /\ data'.bits = v)]_vars

\* C7 witness: store(2) went into a trapdoor emptied by an earlier take, take
\* returned object 2, and the owner was torn down afterwards.
C7_Witness ==
    /\ c_res = Some(2)
    /\ taken = {1, 2}
    /\ p_res = Ok
    /\ tdOwner = "dropped"

\* C8: the producer and the consumer are never at the data cell together,
\* and a consumer that has seen the flag true finds in the cell, and takes
\* from it, the whole object of the latest successful store.
C8_NoRaceOnCell ==
    /\ ~(ProducerAtCell /\ ConsumerAtCell)
    /\ ConsumerAtCell => data = MaybeUninitNew(lastOk)
    /\ cpc = "t_flag" => ~ProducerAtCell /\ c_value = lastOk
    /\ cpc = "p_ref" /\ c_res # Ref => c_res = RefTo(lastOk)

\* C8 witness: while the consumer is between taking object 2 out of the cell
\* and clearing the flag, a concurrent try_store has read the flag and failed.
C8_Witness ==
    /\ cpc = "t_flag"
    /\ c_value = 2
    /\ lastOk = 2
    /\ ppc = "idle"
    /\ p_res = Err(3)

\* C9: a store or try_store that finds the trapdoor occupied changes neither
\* the cell nor the flag; try_store returns Err with the offered object and
\* store panics.
C9_StoreOnOccupied ==
    [][ProducerCalls /\ populated =>
          /\ data' = data
          /\ populated' = populated
          /\ p_value' = offers + 1
          /\ p_res' = (IF p_hard' THEN Panic ELSE Err(offers + 1))
          /\ ppc' = (IF p_hard' THEN "panicked" ELSE "idle")]_vars

\* C9 witness: try_store(2) failed on a trapdoor holding object 1, which is
\* still there, and an unchecked store has panicked on it too.
C9_Witness ==
    /\ populated /\ data = MaybeUninitNew(1) /\ lastOk = 1
    /\ p_res = Panic /\ p_value = 3 /\ ppc = "panicked"
    /\ cpc = "idle"

\* C10: a take, try_take, peek or try_peek that finds the trapdoor empty
\* changes neither the cell nor the flag and hands nothing to the consumer;
\* the try_ variants return None and take and peek panic.
C10_TakeOnEmpty ==
    [][ConsumerCalls /\ ~populated =>
          /\ data' = data
          /\ populated' = populated
          /\ taken' = taken
          /\ c_res' = (IF c_hard' THEN Panic ELSE None)
          /\ cpc' = (IF c_hard' THEN "panicked" ELSE "idle")]_vars

\* C10 witness: after one store and one take that returned its object, a
\* further try_take returned None.
C10_Witness ==
    /\ taken = {1} /\ offers = 1
    /\ c_res = None /\ cpc = "idle"
    /\ ~populated

\* the owner of the Trapdoor is torn down in this step
TdTeardown == tdOwner = "live" /\ tdOwner' = "dropped"

\* the cell holds a live value: it is initialised with an object that was
\* neither handed to the consumer nor destroyed
TdLive ==
    /\ data.init
    /\ IsObject(data.bits)
    /\ data.bits \notin taken
    /\ tdDestroyed[data.bits] = 0

\* C11: tearing the owner down while the trapdoor is populated runs the
\* destructor of the contained object, the latest stored one, once: its count
\* goes from 0 to 1, no other count changes and no destructor runs on junk.
C11_TeardownDestroysPending ==
    [][TdTeardown /\ populated =>
          /\ data = MaybeUninitNew(lastOk)
          /\ tdDestroyed[lastOk] = 0
          /\ tdDestroyed' = [tdDestroyed EXCEPT ![lastOk] = 1]
          /\ tdJunkDrops' = 0
          /\ ~populated' /\ ~data'.init]_vars

\* C11 witness: both halves were dropped while object 2 was in the trapdoor;
\* it was destroyed once and the object taken before it was not.
C11_Witness ==
    /\ tdOwner = "dropped"
    /\ lastOk = 2 /\ taken = {1}
    /\ tdDestroyed[2] = 1 /\ tdDestroyed[1] = 0

\* C12: tearing the owner down after the stored object was taken destroys
\* nothing, and in no state has the trapdoor destroyed an object it handed
\* to the consumer.
C12_NoDestroyAfterTake ==
    [][/\ TdTeardown /\ ~populated =>
             /\ tdDestroyed' = tdDestroyed
             /\ tdJunkDrops' = tdJunkDrops
       /\ \A v \in taken' : IsObject(v) => tdDestroyed'[v] = 0
       /\ tdJunkDrops' = 0]_vars

\* C12 witness: the owner was torn down after store(1) and take; nothing was
\* ever destroyed.
C12_Witness ==
    /\ tdOwner = "dropped"
    /\ taken = {1} /\ lastOk = 1 /\ offers = 1
    /\ \A v \in HVals : tdDestroyed[v] = 0
    /\ tdJunkDrops = 0

\* C13, as stated: in every reachable state the flag is true iff the cell
\* holds a live value.
C13_FlagIffLive_Original == populated <=> TdLive

\* C13, amended: the flag is true iff the cell holds a live value in every
\* state in which the producer is not between its write of the cell and its
\* setting of the flag and the consumer is not between moving the value out
\* of the cell and clearing the flag.
C13_FlagIffLive ==
    ppc # "s_flag" /\ cpc # "t_flag" => (populated <=> TdLive)

\* C13 witness: while the producer is writing object 2 into the emptied cell
\* the flag is false and the cell holds no live value.
C13_Witness ==
    /\ ppc = "s_writing" /\ p_value = 2
    /\ taken = {1}
    /\ ~populated /\ ~TdLive
    /\ cpc = "idle"

\* C14: from the step in which peek or try_peek finds the trapdoor occupied
\* until the reference it returned ends, the cell and the flag do not change,
\* nothing is handed to the consumer, and the reference shows the latest
\* stored object, which is therefore what a following take finds and what
\* still makes a following try_store fail.
C14_PeekKeeps ==
    [][(cpc = "idle" /\ cpc' = "p_ref") \/ cpc = "p_ref" =>
          /\ populated /\ populated'
          /\ data' = data
          /\ data = MaybeUninitNew(lastOk)
          /\ taken' = taken
          /\ tdDestroyed' = tdDestroyed
          /\ c_res' \in {Ref, RefTo(lastOk)}
          /\ ppc' \notin {"s_write", "s_writing", "s_flag"}]_vars

\* C14 witness: the reference a peek returned has shown object 1, a
\* try_store has failed on the still occupied trapdoor, and object 1 is
\* still in the cell for a following take.
C14_Witness ==
    /\ cpc = "p_ref" /\ c_res = RefTo(1)
    /\ p_res = Err(2) /\ ppc = "idle"
    /\ populated /\ data = MaybeUninitNew(1)

\* ------------------------------------------------ MontyHall: more claims
\* a destructor runs in this step
RanDestructor == destroyed' # destroyed \/ junkDrops' # junkDrops

\* the handle drop decides in this step whether to destroy its value
ReleaseDecides == rpc = "r_drop" /\ rpc' = "idle"
\* store decides in this step whether to destroy the old canonical value
StoreDecides == wpc = "drop" /\ wpc' = "idle"

\* a handle drop runs a destructor, on the value it moved out of its
\* bucket, exactly if the prior acquired differed from the prior canonical
ReleaseDropsIffSuperseded ==
    ReleaseDecides =>
        /\ RanDestructor <=> r_old.acquired # r_old.canonical
        /\ destroyed' = (IF r_old.acquired # r_old.canonical
                         THEN DropIn(destroyed, r_value) ELSE destroyed)

\* when the prior acquired equalled the prior canonical and no store has
\* superseded the bucket since, the handle's value is still in its bucket as
\* the live canonical value
ReleaseKeepsCanonical ==
    ReleaseDecides /\ r_old.acquired = r_old.canonical
                   /\ bucket_info.canonical = r_old.canonical =>
        /\ buckets'[r_old.canonical] = MaybeUninitNew(r_value)
        /\ Live(r_old.canonical)'

\* C16: releasing a handle destroys the value of its bucket exactly if, at
\* the reset of acquired, the prior acquired differed from the prior
\* canonical; when they were equal the value is not destroyed and stays in
\* the bucket as the live canonical value.
C16_ReleaseRule ==
    [][ReleaseDropsIffSuperseded /\ ReleaseKeepsCanonical]_vars

\* the object store supersedes: the one published before the one it stores
Superseded == w_value - 1

\* C17: after the swap store destroys the superseded canonical value, once,
\* exactly if the prior acquired differed from the prior canonical; when
\* they were equal store destroys nothing, leaves every bucket as it is and
\* the pinned value stays live.
C17_StoreRule ==
    [][StoreDecides =>
          /\ RanDestructor <=> StoreMustDrop(w_old)
          /\ w_old.acquired # w_old.canonical =>
                /\ destroyed' = [destroyed EXCEPT ![Superseded] = 1]
                /\ junkDrops' = junkDrops
                /\ ~buckets'[w_old.canonical].init
          /\ w_old.acquired = w_old.canonical =>
                /\ buckets' = buckets
                /\ HandleOut /\ h_acquired = w_old.canonical
                       /\ IsObject(h_loaded) => destroyed'[h_loaded] = 0]_vars

\* C18: when store writes the new value into the bucket write_bucket chose,
\* that bucket exists and holds no value, so the write, which runs no
\* destructor, overwrites nothing live.
C18_WriteTargetEmpty ==
    wpc = "write" =>
        /\ w_bucket \in Buckets
        /\ ~buckets[w_bucket].init
        /\ ~Live(w_bucket)

\* C18 witness: the third store is about to write into bucket 0 again, which
\* held the initial object, while a handle pins another bucket.
C18_Witness ==
    /\ wpc = "write" /\ w_value = 4 /\ w_bucket = 0
    /\ HandleOut /\ h_acquired # 0
    /\ destroyed[1] = 1

\* C19: every change of the BucketInfo is either store's, which sets
\* canonical to its write bucket and leaves acquired as it is at that
\* instant, or load's or the handle drop's, which set acquired (to the
\* canonical of that instant, or to NONE) and leave canonical as it is.
C19_NoTornUpdate ==
    [][bucket_info' # bucket_info =>
          \/ /\ wpc = "cas" /\ wpc' = "drop"
             /\ bucket_info' = BucketInfo(bucket_info.acquired, w_bucket)
             /\ w_old' = bucket_info
             /\ UNCHANGED rpc
          \/ /\ rpc = "l_cas" /\ rpc' = "held"
             /\ bucket_info' = BucketInfo(bucket_info.canonical, bucket_info.canonical)
             /\ h_acquired' = bucket_info.canonical
             /\ UNCHANGED wpc
          \/ /\ rpc = "r_cas" /\ rpc' = "r_drop"
             /\ bucket_info' = BucketInfo(NONE, bucket_info.canonical)
             /\ r_old' = bucket_info
             /\ UNCHANGED wpc]_vars

\* C19 witness: a load's update landed while a store was under way and
\* before the store's compare-exchange succeeded, and after the store's update
\* both are in the BucketInfo: acquired from the load, canonical from the
\* store.
C19_Witness ==
    /\ wpc = "drop" /\ HandleOut
    /\ w_old = BucketInfo(h_acquired, h_acquired)
    /\ bucket_info = BucketInfo(h_acquired, w_bucket)
    /\ w_bucket # h_acquired
    /\ h_expect.quiet = FALSE

\* load returns its handle in this step
LoadReturns == rpc = "l_cas" /\ rpc' = "held"

\* C20: objects are numbered in publication order (1 is the initial value,
\* the stores publish 2, 3, ...); what a load observes is a published value,
\* and it was not published before the value the load before it observed.
C20_MonotonicReads ==
    [][LoadReturns =>
          /\ IsObject(h_loaded')
          /\ IsObject(h_loaded) => h_loaded' >= h_loaded]_vars

\* ---------------------------------------------------------------- progress
\* a store, a load or a handle drop is under way
InStore == wpc # "idle"
InLoad == rpc = "l_cas"
InRelease == rpc \in {"r_fetch", "r_cas", "r_drop"}
\* a store or a take on the Trapdoor is under way
InTdStore == ppc \in {"s_write", "s_writing", "s_flag"}
InTdTake == cpc \in {"t_read", "t_flag"}

ReadUpdates == bucket_info' # bucket_info /\ rpc' # rpc
StoreUpdates == bucket_info' # bucket_info /\ wpc' # wpc

====
